---------------------------- MODULE Spec2Model ----------------------------
(***************************************************************************)
(* Model of the box-game simulation core of backroll_example:              *)
(*   src/src/game.rs  GameState (new, advance), fletcher16, Game (new,     *)
(*                    handle_commands, advance_frame)                      *)
(*   src/src/main.rs  main (player count, construction of the Game)        *)
(*                                                                         *)
(* Numbers.  The program computes in f32.                                  *)
(*   Lengths and velocities are modelled in fixed point, in 1/1000 of a    *)
(* unit (Unit), every product and quotient rounded to the nearest integer  *)
(* the way an f32 result is rounded to the nearest float.                  *)
(*   Headings are modelled exactly.  A heading is an integer number of     *)
(* 2^-28 radians (AngleUnit); every f32 the heading arithmetic of the      *)
(* program produces is such a number, below 2^31.  An f32 has 24           *)
(* significant bits, so a value v >= 2^24 is a multiple of Ulp(v) > 1,     *)
(* and every sum, difference, product and quotient is rounded to that      *)
(* grid, to nearest, ties to even (RoundF, RoundFrac), as IEEE 754 does.   *)
(*   sin and cos are Bhaskara's rational approximation, evaluated in       *)
(* integers on the heading in 1/1000 of a radian.  A serialized f32 is     *)
(* the four little-endian bytes of the model's integer.                    *)
(***************************************************************************)
EXTENDS Integers, Sequences, FiniteSets, TLC

---------------------------------------------------------------------------
(* Program constants (game.rs:13-30), in fixed point.                      *)

Unit == 1000
CHECKSUM_PERIOD == 100
NULL_FRAME == 0 - 1
WINDOW_HEIGHT == 800000
WINDOW_WIDTH == 600000
INPUT_UP == 1
INPUT_DOWN == 2
INPUT_LEFT == 4
INPUT_RIGHT == 8
MOVEMENT_SPEED == 250
\* 2.5 / 60.0 in f32: 11184811 * 2^-28
ROTATION_SPEED == 11184811
MAX_SPEED == 7000
FRICTION == 980
\* std::f32::consts::PI: 13176795 * 2^-22, in 2^-28 radians
PI == 843314880
TWO_PI == 2 * PI
MAX_PLAYERS == 4

---------------------------------------------------------------------------
(* Bounds of the model.                                                    *)

\* opt.players.len() ranges over 0..MaxArgPlayers
MaxArgPlayers == 5
\* the engine issues AdvanceFrame commands for MaxFrame frames past the frame
\* the model starts at
MaxFrame == 2
\* the frames a player has turned left in before the late start of SpecHeading
SpinFrames == 1442029
\* SpecHeading follows a heading for MaxTurns turns
MaxTurns == 3
\* SpecChecksum checksums the byte sequences of up to MaxLen bytes
MaxLen == 4
\* the frames of a game before the frame that SpecStep takes
RunUp == 10

---------------------------------------------------------------------------
(* Arithmetic helpers.                                                     *)

\* a / b rounded to the nearest integer, symmetric around 0 (b > 0)
RoundDiv(a, b) == IF a >= 0 THEN (2 * a + b) \div (2 * b)
                  ELSE 0 - ((2 * (0 - a) + b) \div (2 * b))

\* fixed-point product of two values scaled by Unit
Mul(a, b) == RoundDiv(a * b, Unit)

\* one radian, in the unit of the headings (2^28)
AngleUnit == 268435456
\* 2^24: an f32 has 24 significant bits
Mant == 16777216
\* 2^12: half a significand, the limb of the exact product
Limb == 4096

\* the distance between the f32 values around v >= 0 (v in 2^-28, below 2^31)
Ulp(v) ==
    IF v < Mant THEN 1 ELSE IF v < 2 * Mant THEN 2 ELSE IF v < 4 * Mant THEN 4
    ELSE IF v < 8 * Mant THEN 8 ELSE IF v < 16 * Mant THEN 16
    ELSE IF v < 32 * Mant THEN 32 ELSE IF v < 64 * Mant THEN 64 ELSE 128

\* the f32 nearest to whole + num / den (0 <= num < den), ties to even
RoundFrac(whole, num, den) ==
    LET g    == Ulp(whole)
        q    == whole \div g
        r    == whole % g
        up   == IF g = 1 THEN 2 * num > den
                ELSE r > g \div 2 \/ (r = g \div 2 /\ num > 0)
        tie  == IF g = 1 THEN 2 * num = den
                ELSE r = g \div 2 /\ num = 0
    IN  IF up \/ (tie /\ q % 2 = 1) THEN (q + 1) * g ELSE q * g

\* the f32 nearest to the integer v (of either sign), ties to even
RoundF(v) == IF v >= 0 THEN RoundFrac(v, 0, 1) ELSE 0 - RoundFrac(0 - v, 0, 1)

\* f32 addition and subtraction
AddF(a, b) == RoundF(a + b)
SubF(a, b) == RoundF(a - b)

\* i as f32 / n as f32 for small non-negative integers
DivF(i, n) == RoundFrac((i * AngleUnit) \div n, (i * AngleUnit) % n, n)

\* the exact product of two significands below 2^24, as hi * 2^24 + lo
Product(ma, mb) ==
    LET a1  == ma \div Limb
        a0  == ma % Limb
        b1  == mb \div Limb
        b0  == mb % Limb
        mid == a1 * b0 + a0 * b1
        t   == (mid % Limb) * Limb + a0 * b0
    IN  [ hi |-> a1 * b1 + mid \div Limb + t \div Mant, lo |-> t % Mant ]

\* f32 multiplication of two non-negative values
MulF(a, b) ==
    LET ua == Ulp(a)
        ub == Ulp(b)
        p  == Product(a \div ua, b \div ub)
        \* the exact product is (p.hi * 2^24 + p.lo) / W
        W  == AngleUnit \div (ua * ub)
    IN  IF W <= Mant
          THEN RoundFrac(p.hi * (Mant \div W) + p.lo \div W, p.lo % W, W)
          ELSE RoundFrac(p.hi \div (W \div Mant), (p.hi % (W \div Mant)) * Mant + p.lo, W)

\* Rust's % on floats (fmod): exact, the remainder has the sign of the dividend
Fmod(x, m) == IF x >= 0 THEN x % m ELSE 0 - ((0 - x) % m)

\* f32::rem_euclid: let r = self % rhs; if r < 0.0 { r + rhs.abs() } else { r }
RemEuclid(x, m) == LET r == Fmod(x, m) IN IF r < 0 THEN AddF(r, m) ELSE r

\* pi in 1/1000 of a radian, for sin and cos
PI_MILLI == 3142

\* an angle in 1/1000 of a radian (the nearest), reduced to 0 .. 2 pi
ToMilli(x) == (((x \div 1024) * 1000 + 131072) \div 262144) % (2 * PI_MILLI)

\* Bhaskara's approximation of sin on [0, pi] (in 1/1000 radian), scaled by Unit
SinHalf(a) == LET p == a * (PI_MILLI - a)
              IN  RoundDiv(16 * p * 5, (5 * PI_MILLI * PI_MILLI - 4 * p) \div 200)

\* sin of an angle in 1/1000 of a radian, 0 <= a < 2 pi
SinMilli(a) == IF a <= PI_MILLI THEN SinHalf(a) ELSE 0 - SinHalf(a - PI_MILLI)

\* f32::sin
Sin(x) == SinMilli(ToMilli(x))

\* f32::cos
Cos(x) == SinMilli((ToMilli(x) + PI_MILLI \div 2) % (2 * PI_MILLI))

RECURSIVE SqrtSearch(_, _, _)
SqrtSearch(n, lo, hi) ==
    IF lo >= hi THEN lo
    ELSE LET mid == (lo + hi + 1) \div 2
         IN  IF mid * mid <= n THEN SqrtSearch(n, mid, hi)
             ELSE SqrtSearch(n, lo, mid - 1)

\* f32::sqrt of a sum of squares of fixed-point values
Sqrt(n) == SqrtSearch(n, 0, 40000)

Max(a, b) == IF a >= b THEN a ELSE b
Min(a, b) == IF a <= b THEN a ELSE b

\* bit k of the u8 mask m
Bit(m, k) == (m \div k) % 2
\* input & FLAG != 0
Pressed(input, flag) == Bit(input, flag) # 0

---------------------------------------------------------------------------
(* GameState (game.rs:39-139).  The three Vecs are functions on            *)
(* 0..len-1, so that entry i of the model is entry i of the code.          *)

Handles(n) == 0 .. (n - 1)

\* rotation of player i in the initial circle: i / n * 2.0 * PI, left to right
StartRot(i, n) == MulF(2 * DivF(i, n), PI)

\* (rot + PI) % (2.0 * PI) (game.rs:62).  A sum of 2^31 units or more (8 rad
\* and more, where an f32 has steps of 256 units) is kept as its count q of
\* steps of 256 units; it is below 4 pi, so the remainder is q * 256 - 2 pi
Opposite(rot) ==
    IF rot <= 2147483647 - PI THEN Fmod(AddF(rot, PI), TWO_PI)
    ELSE LET low   == (rot % 256) + (PI % 256)
             whole == (rot \div 256) + (PI \div 256) + (low \div 256)
             part  == low % 256
             q     == IF part > 128 \/ (part = 128 /\ whole % 2 = 1)
                        THEN whole + 1 ELSE whole
         IN  (q - (TWO_PI \div 256)) * 256 - (TWO_PI % 256)

\* a bug: the loop of new pushes a heading once more than a position
GameStateNewExtraHeading(n) ==
    [ frame       |-> 0,
      num_players |-> n,
      positions   |-> [i \in Handles(n) |-> << 0, 0 >>],
      velocities  |-> [i \in Handles(n) |-> << 0, 0 >>],
      rotations   |-> [i \in Handles(n + 1) |-> PI] ]

\* GameState::new
GameStateNew(n) ==
    LET r == RoundDiv(WINDOW_WIDTH, 4)
    IN  [ frame       |-> 0,
          num_players |-> n,
          positions   |-> [i \in Handles(n) |->
                             << RoundDiv(WINDOW_WIDTH, 2) + Mul(r, Cos(StartRot(i, n))),
                                RoundDiv(WINDOW_HEIGHT, 2) + Mul(r, Sin(StartRot(i, n))) >>],
          velocities  |-> [i \in Handles(n) |-> << 0, 0 >>],
          rotations   |-> [i \in Handles(n) |-> Opposite(StartRot(i, n))] ]

\* a bug: the disconnect flag is not looked at
EffectiveInputRaw(inputs, i) ==
    IF i \notin DOMAIN inputs THEN 0 - 1 ELSE inputs[i].buttons

\* what stands for the input of a handle whose lookup has panicked
Unresolved == 0 - 1

\* a bug: a handle the engine's input does not know is taken for one that
\* holds no button
EffectiveInputOrDefault(inputs, i) ==
    IF i \notin DOMAIN inputs THEN 0
    ELSE IF inputs[i].disconnected THEN INPUT_LEFT ELSE inputs[i].buttons

\* GameInput<PlayerInput>: per handle it knows, the disconnect flag and the
\* raw buttons.  inputs.is_disconnected(handle).unwrap() and
\* inputs.get(handle).unwrap().buttons_pressed (game.rs:81-86): the unwrap
\* of the Err that answers an unknown handle panics
EffectiveInput(inputs, i) ==
    IF i \notin DOMAIN inputs THEN Unresolved
    ELSE IF inputs[i].disconnected THEN INPUT_LEFT ELSE inputs[i].buttons

\* a bug: the counter is incremented twice
NextFrameTwice(frame) == frame + 2

\* frame += 1 on an i32
NextFrame(frame) == frame + 1

\* a bug: thrust and break do not look at the opposite button
ThrustNoExclusion(old_vel, rot, input) ==
    LET vel_x == Mul(old_vel[1], FRICTION)
        vel_y == Mul(old_vel[2], FRICTION)
    IN  IF Pressed(input, INPUT_UP)
          THEN << vel_x + Mul(MOVEMENT_SPEED, Cos(rot)), vel_y + Mul(MOVEMENT_SPEED, Sin(rot)) >>
        ELSE IF Pressed(input, INPUT_DOWN)
          THEN << vel_x - Mul(MOVEMENT_SPEED, Cos(rot)), vel_y - Mul(MOVEMENT_SPEED, Sin(rot)) >>
        ELSE << vel_x, vel_y >>

\* velocity after friction and thrust (game.rs:93-106)
Thrust(old_vel, rot, input) ==
    LET vel_x == Mul(old_vel[1], FRICTION)
        vel_y == Mul(old_vel[2], FRICTION)
        up    == Pressed(input, INPUT_UP)
        down  == Pressed(input, INPUT_DOWN)
    IN  IF up /\ ~down
          THEN << vel_x + Mul(MOVEMENT_SPEED, Cos(rot)), vel_y + Mul(MOVEMENT_SPEED, Sin(rot)) >>
        ELSE IF ~up /\ down
          THEN << vel_x - Mul(MOVEMENT_SPEED, Cos(rot)), vel_y - Mul(MOVEMENT_SPEED, Sin(rot)) >>
        ELSE << vel_x, vel_y >>

\* heading after the turn (game.rs:107-114)
Turn(rot, input) ==
    LET left  == Pressed(input, INPUT_LEFT)
        right == Pressed(input, INPUT_RIGHT)
    IN  IF left /\ ~right THEN RemEuclid(SubF(rot, ROTATION_SPEED), TWO_PI)
        ELSE IF ~left /\ right THEN RemEuclid(AddF(rot, ROTATION_SPEED), TWO_PI)
        ELSE rot

\* a bug: the speed is not limited
LimitSpeedNever(vel) == vel

\* limit speed (game.rs:116-121)
LimitSpeed(vel) ==
    LET magnitude == Sqrt(vel[1] * vel[1] + vel[2] * vel[2])
    IN  IF magnitude > MAX_SPEED
          THEN << RoundDiv(vel[1] * MAX_SPEED, magnitude),
                  RoundDiv(vel[2] * MAX_SPEED, magnitude) >>
        ELSE vel

\* a bug: the new position is not constrained to the canvas
MoveUnclamped(old_pos, vel) == << old_pos[1] + vel[1], old_pos[2] + vel[2] >>

\* new position, constrained to the canvas (game.rs:123-131)
Move(old_pos, vel) ==
    << Min(Max(old_pos[1] + vel[1], 0), WINDOW_WIDTH),
       Min(Max(old_pos[2] + vel[2], 0), WINDOW_HEIGHT) >>

\* a bug: the thrust of player i is along the heading already stored for the
\* player before it
StepPlayerCross(gs, inputs, i) ==
    LET input == EffectiveInput(inputs, i)
        rot   == gs.rotations[i]
        aim   == gs.rotations[IF i > 0 THEN i - 1 ELSE i]
        vel   == LimitSpeed(Thrust(gs.velocities[i], aim, input))
    IN  [ pos |-> Move(gs.positions[i], vel),
          vel |-> vel,
          rot |-> Turn(rot, input) ]

\* one pass of the loop body of advance for player i (game.rs:79-136):
\* the new (position, velocity, rotation) of player i
StepPlayer(gs, inputs, i) ==
    LET input == EffectiveInput(inputs, i)
        rot   == gs.rotations[i]
        vel   == LimitSpeed(Thrust(gs.velocities[i], rot, input))
    IN  [ pos |-> Move(gs.positions[i], vel),
          vel |-> vel,
          rot |-> Turn(rot, input) ]

\* "update all state" for player i (game.rs:133-136)
StorePlayer(gs, i, p) ==
    [gs EXCEPT !.positions[i] = p.pos, !.velocities[i] = p.vel, !.rotations[i] = p.rot]

\* the loop of advance from player i on (game.rs:78-137); a panic ends it
\* with the players before i stored
RECURSIVE AdvanceLoop(_, _, _)
AdvanceLoop(gs, inputs, i) ==
    IF i >= gs.num_players THEN gs
    ELSE IF EffectiveInput(inputs, i) = Unresolved THEN gs
    ELSE AdvanceLoop(StorePlayer(gs, i, StepPlayer(gs, inputs, i)), inputs, i + 1)

\* advance returns: no lookup of game.rs:81-85 panics
Returns(gs, inputs) ==
    \A i \in Handles(gs.num_players) : EffectiveInput(inputs, i) # Unresolved

\* GameState::advance
Advance(gs, inputs) ==
    AdvanceLoop([gs EXCEPT !.frame = NextFrame(gs.frame)], inputs, 0)

---------------------------------------------------------------------------
(* bincode::serialize(&GameState) (game.rs:190) and fletcher16             *)
(* (game.rs:142-152).                                                      *)

\* the k low bytes of v >= 0, least significant first
RECURSIVE LeBytes(_, _)
LeBytes(v, k) == IF k = 0 THEN << >> ELSE << v % 256 >> \o LeBytes(v \div 256, k - 1)

\* the bytes of a sequence, each complemented
Complement(bs) == [j \in DOMAIN bs |-> 255 - bs[j]]

\* a signed value in k bytes, two's complement, little endian
SignedLe(v, k) == IF v >= 0 THEN LeBytes(v, k) ELSE Complement(LeBytes((0 - v) - 1, k))

\* the concatenation of f(0), ..., f(n-1)
RECURSIVE Concat(_, _, _)
Concat(f, i, n) == IF i >= n THEN << >> ELSE f[i] \o Concat(f, i + 1, n)

Len0(f) == Cardinality(DOMAIN f)

\* field order and widths of the derived Serialize: i32, usize as u64,
\* each Vec as a u64 length followed by its entries
Serialize(gs) ==
    SignedLe(gs.frame, 4)
    \o LeBytes(gs.num_players, 8)
    \o LeBytes(Len0(gs.positions), 8)
    \o Concat([i \in DOMAIN gs.positions |->
                 SignedLe(gs.positions[i][1], 4) \o SignedLe(gs.positions[i][2], 4)],
              0, Len0(gs.positions))
    \o LeBytes(Len0(gs.velocities), 8)
    \o Concat([i \in DOMAIN gs.velocities |->
                 SignedLe(gs.velocities[i][1], 4) \o SignedLe(gs.velocities[i][2], 4)],
              0, Len0(gs.velocities))
    \o LeBytes(Len0(gs.rotations), 8)
    \o Concat([i \in DOMAIN gs.rotations |-> SignedLe(gs.rotations[i], 4)],
              0, Len0(gs.rotations))

\* a | b on 16-bit values
RECURSIVE BitOr(_, _, _)
BitOr(a, b, bits) ==
    IF bits = 0 THEN 0
    ELSE (IF a % 2 = 1 \/ b % 2 = 1 THEN 1 ELSE 0) + 2 * BitOr(a \div 2, b \div 2, bits - 1)

\* u16 arithmetic wraps at 2^16
U16(x) == x % 65536

\* a bug: the sums are reduced modulo 256
FletcherStepMod256(sums, byte) ==
    LET sum1 == U16(sums[1] + byte) % 256
        sum2 == U16(sums[2] + sum1) % 256
    IN  << sum1, sum2 >>

\* one pass of the loop of fletcher16 (game.rs:147-148) on << sum1, sum2 >>
FletcherStep(sums, byte) ==
    LET sum1 == U16(sums[1] + byte) % 255
        sum2 == U16(sums[2] + sum1) % 255
    IN  << sum1, sum2 >>

\* the passes of the loop of fletcher16 for the bytes from .. to, in order,
\* starting with << sum1, sum2 >> = sums.  The range is halved and the first
\* half is evaluated before the second is entered (the test on `first`, which
\* always holds, makes TLC do so): the evaluation nests log(to - from) deep
\* instead of to - from deep.
RECURSIVE FletcherLoop(_, _, _, _)
FletcherLoop(data, sums, from, to) ==
    IF from > to THEN sums
    ELSE IF from = to THEN FletcherStep(sums, data[from])
    ELSE LET mid   == (from + to) \div 2
             first == FletcherLoop(data, sums, from, mid)
         IN  IF first[1] >= 0 THEN FletcherLoop(data, first, mid + 1, to) ELSE first

\* fletcher16
Fletcher16(data) ==
    LET sums == FletcherLoop(data, << 0, 0 >>, 1, Len(data))
    IN  BitOr(U16(sums[2] * 256), sums[1], 16)

---------------------------------------------------------------------------
(* Game (game.rs:155-196): the dispatcher.  A Game is the record of its    *)
(* four fields; each handler is an operator from the Game before the       *)
(* command to the Game after it.                                           *)

\* a bug: no assertion on the player count
GameNewAcceptsAny(n) == TRUE

\* assert!(num_players <= 4)
GameNewAccepts(n) == n <= MAX_PLAYERS

\* Game::new
GameNew(n) ==
    [ num_players       |-> n,
      game_state        |-> GameStateNew(n),
      last_checksum     |-> << NULL_FRAME, 0 >>,
      periodic_checksum |-> << NULL_FRAME, 0 >> ]

\* a bug: a clone that leaves the velocities out
CloneStateNoVelocity(gs) ==
    [ frame       |-> gs.frame,
      num_players |-> gs.num_players,
      positions   |-> [i \in DOMAIN gs.positions |-> gs.positions[i]],
      velocities  |-> [i \in DOMAIN gs.velocities |-> << 0, 0 >>],
      rotations   |-> [i \in DOMAIN gs.rotations |-> gs.rotations[i]] ]

\* #[derive(Clone)] on GameState: every field is cloned, the Vecs deeply
CloneState(gs) ==
    [ frame       |-> gs.frame,
      num_players |-> gs.num_players,
      positions   |-> [i \in DOMAIN gs.positions |-> gs.positions[i]],
      velocities  |-> [i \in DOMAIN gs.velocities |-> gs.velocities[i]],
      rotations   |-> [i \in DOMAIN gs.rotations |-> gs.rotations[i]] ]

\* Command::Save: the state handed to save_without_hash
OnSave(g) == CloneState(g.game_state)

\* a bug: a Save that records the checksum of the state it saves
AfterSaveRecords(g) ==
    [g EXCEPT !.last_checksum = << g.game_state.frame, Fletcher16(Serialize(g.game_state)) >>]

\* Command::Save leaves the Game itself alone (clone takes &self)
AfterSave(g) == g

\* a bug: a Load that restores the players and keeps the frame counter
OnLoadKeepsFrame(g, loaded) ==
    [g EXCEPT !.game_state = [loaded EXCEPT !.frame = g.game_state.frame]]

\* a bug: a Load that also rolls the last checksum record back
OnLoadRecords(g, loaded) ==
    [g EXCEPT !.game_state    = loaded,
              !.last_checksum = << loaded.frame, Fletcher16(Serialize(loaded)) >>]

\* a bug: a Load that takes the frame, the positions and the velocities of
\* the snapshot and leaves the live headings
OnLoadPartial(g, loaded) ==
    [g EXCEPT !.game_state = [loaded EXCEPT !.rotations = g.game_state.rotations]]

\* Command::Load: self.game_state = load.load()
OnLoad(g, loaded) == [g EXCEPT !.game_state = loaded]

\* a bug: an Event that restarts the game
OnEventResets(g) ==
    [ num_players       |-> g.num_players,
      game_state        |-> GameStateNew(g.num_players),
      last_checksum     |-> << NULL_FRAME, 0 >>,
      periodic_checksum |-> << NULL_FRAME, 0 >> ]

\* Command::Event: println!
OnEvent(g) == g

\* a bug: the period is tested on the frame before the increment
PeriodicBeforeIncrement(periodic, frame, checksum) ==
    IF (frame - 1) % CHECKSUM_PERIOD = 0 THEN << frame, checksum >> ELSE periodic

\* the periodic record after an advance to `frame` (game.rs:193-195)
PeriodicAfter(periodic, frame, checksum) ==
    IF frame % CHECKSUM_PERIOD = 0 THEN << frame, checksum >> ELSE periodic

\* Game::advance_frame
OnAdvanceFrame(g, inputs) ==
    LET gs       == Advance(g.game_state, inputs)
        buffer   == Serialize(gs)
        checksum == Fletcher16(buffer)
    IN  [ g EXCEPT !.game_state        = gs,
                   !.last_checksum     = << gs.frame, checksum >>,
                   !.periodic_checksum = PeriodicAfter(g.periodic_checksum, gs.frame, checksum) ]

---------------------------------------------------------------------------
(* The engine's side: the commands it issues and the inputs it supplies.   *)

\* the inputs one player can be given in a frame
Neutral == [disconnected |-> FALSE, buttons |-> 0]
PlayerInputs ==
    << Neutral,
       [disconnected |-> FALSE, buttons |-> INPUT_UP],
       [disconnected |-> TRUE,  buttons |-> INPUT_UP + INPUT_RIGHT] >>

\* the input vectors of a frame: vector k gives player i input k + i (cyclically),
\* so every player meets every input and the players of a frame differ
InputVectors(n) ==
    { [i \in Handles(n) |-> PlayerInputs[((k + i) % Len(PlayerInputs)) + 1]] :
        k \in 1 .. Len(PlayerInputs) }

NeutralVector(n) == [i \in Handles(n) |-> Neutral]

\* input vectors that do not know every handle of a game of n players: that
\* of a session of k < n players, each of them holding the thrust button
ShortVectors(n) == { [i \in Handles(k) |-> PlayerInputs[2]] : k \in 0 .. (n - 1) }

\* the Game after k more AdvanceFrame commands, each with the input vector
\* `inputs` (the first half of them is evaluated before the second, as in
\* FletcherLoop)
RECURSIVE Hold(_, _, _)
Hold(g, inputs, k) ==
    IF k = 0 THEN g
    ELSE IF k = 1 THEN OnAdvanceFrame(g, inputs)
    ELSE LET first == Hold(g, inputs, k \div 2)
         IN  IF first.num_players >= 0 THEN Hold(first, inputs, k - (k \div 2)) ELSE first

\* the Game after k more AdvanceFrame commands with neutral input
Idle(g, k) == Hold(g, NeutralVector(g.num_players), k)

\* every player holds the thrust button
ThrustVector(n) == [i \in Handles(n) |-> PlayerInputs[2]]

\* the frame before the first periodic checksum
WarmFrames == CHECKSUM_PERIOD - 1

\* the frames at which the engine still issues AdvanceFrame: the first
\* MaxFrame frames of a game, and the MaxFrame frames from WarmFrames on
CanAdvance(frame) ==
    \/ frame < MaxFrame
    \/ frame >= WarmFrames /\ frame < WarmFrames + MaxFrame

---------------------------------------------------------------------------
(* State.                                                                  *)

VARIABLES
    pc,         \* where main is: "main", "session", "running", "aborted"; "probe" when a
                \* single function is under test and there is no main
    players,    \* main's num_players = opt.players.len()
    game,       \* the Game, once constructed
    snapshot,   \* the engine's save cell: << >> or << the saved GameState >>
    cmd,        \* the command handled last: "none", "Save", "Load", "AdvanceFrame", "Event"
    at_save,    \* history: the live state at the moment of the last Save
    after_save, \* history: the last command followed a Save directly
    probe,      \* the value under test in the specifications of single functions
    hist        \* history of SpecReplay: the inputs since the last Save, and the last Load

vars == << pc, players, game, snapshot, cmd, at_save, after_save, probe, hist >>

\* the variables the program's own steps leave alone
aux == << probe, hist >>

\* nothing is under test; no history is kept
NoProbe == [kind |-> "none"]
NoHist == [kind |-> "none"]

\* no Game exists before Game::new returns
NoGame == [built |-> FALSE]

\* main has read its arguments
InitMain ==
    /\ pc = "main"
    /\ players \in 0 .. MaxArgPlayers
    /\ game = NoGame
    /\ snapshot = << >>
    /\ cmd = "none"
    /\ at_save = << >>
    /\ after_save = FALSE
    /\ probe = NoProbe
    /\ hist = NoHist

\* a running game WarmFrames frames in, every frame so far with neutral input
\* and no Save so far
InitLate ==
    /\ pc = "running"
    /\ players \in 1 .. MAX_PLAYERS
    /\ game = Idle(GameNew(players), WarmFrames)
    /\ snapshot = << >>
    /\ cmd = "AdvanceFrame"
    /\ at_save = << >>
    /\ after_save = FALSE
    /\ probe = NoProbe
    /\ hist = NoHist

\* a running game WarmFrames frames in, every player having held the thrust
\* button in every frame so far: the players have crossed the canvas and are
\* at full speed, those of a game of 1, 2 or 4 players at a wall
InitWall ==
    /\ pc = "running"
    /\ players \in 1 .. MAX_PLAYERS
    /\ game = Hold(GameNew(players), ThrustVector(players), WarmFrames)
    /\ snapshot = << >>
    /\ cmd = "AdvanceFrame"
    /\ at_save = << >>
    /\ after_save = FALSE
    /\ probe = NoProbe
    /\ hist = NoHist

Init == InitMain \/ InitLate \/ InitWall

\* main.rs:49-50: assert!(num_players > 0)
MainAssert ==
    /\ pc = "main"
    /\ pc' = IF players > 0 THEN "session" ELSE "aborted"
    /\ UNCHANGED << players, game, snapshot, cmd, at_save, after_save >>

\* main.rs:74: Game::new(num_players), with its assertion
MainGameNew ==
    /\ pc = "session"
    /\ IF GameNewAccepts(players)
         THEN pc' = "running" /\ game' = GameNew(players)
         ELSE pc' = "aborted" /\ game' = game
    /\ UNCHANGED << players, snapshot, cmd, at_save, after_save >>

\* Command::Save
Save ==
    /\ pc = "running"
    /\ snapshot' = << OnSave(game) >>
    /\ game' = AfterSave(game)
    /\ cmd' = "Save"
    /\ at_save' = << game.game_state >>
    /\ after_save' = (cmd = "Save")
    /\ UNCHANGED << pc, players >>

\* Command::Load
Load ==
    /\ pc = "running"
    /\ snapshot # << >>
    /\ game' = OnLoad(game, snapshot[1])
    /\ cmd' = "Load"
    /\ after_save' = (cmd = "Save")
    /\ UNCHANGED << pc, players, snapshot, at_save >>

\* a bug: the saved state shares its storage with the live state, so that an
\* advance of the live state shows in the snapshot
AdvanceFrameAliased(inputs) ==
    /\ pc = "running"
    /\ CanAdvance(game.game_state.frame)
    /\ game' = OnAdvanceFrame(game, inputs)
    /\ snapshot' = IF snapshot = << >> THEN snapshot ELSE << game'.game_state >>
    /\ cmd' = "AdvanceFrame"
    /\ after_save' = (cmd = "Save")
    /\ UNCHANGED << pc, players, at_save >>

\* Command::AdvanceFrame(inputs); a panic in advance unwinds out of
\* advance_frame, handle_commands and main, with the frame counter
\* incremented and the players before the unknown handle stored
AdvanceFrame(inputs) ==
    /\ pc = "running"
    /\ CanAdvance(game.game_state.frame)
    /\ IF Returns(game.game_state, inputs)
         THEN /\ game' = OnAdvanceFrame(game, inputs)
              /\ pc' = pc
         ELSE /\ game' = [game EXCEPT !.game_state = Advance(game.game_state, inputs)]
              /\ pc' = "aborted"
    /\ cmd' = "AdvanceFrame"
    /\ after_save' = (cmd = "Save")
    /\ UNCHANGED << players, snapshot, at_save >>

\* Command::Event
Event ==
    /\ pc = "running"
    /\ game' = OnEvent(game)
    /\ cmd' = "Event"
    /\ after_save' = (cmd = "Save")
    /\ UNCHANGED << pc, players, snapshot, at_save >>

\* handle_commands: the commands of the batches, one at a time
HandleCommand ==
    \/ Save /\ UNCHANGED aux
    \/ Load /\ UNCHANGED aux
    \/ \E inputs \in InputVectors(players) \cup ShortVectors(players) :
          AdvanceFrame(inputs) /\ UNCHANGED aux
    \/ Event /\ UNCHANGED aux

Next ==
    \/ MainAssert /\ UNCHANGED aux
    \/ MainGameNew /\ UNCHANGED aux
    \/ HandleCommand

Spec == Init /\ [][Next]_vars

---------------------------------------------------------------------------
(* The heading of one player, turn by turn (game.rs:107-114): the          *)
(* specification of Turn alone.  A player that is disconnected, or holds   *)
(* left, turns left in every frame.                                        *)

\* the heading after k more left turns (the first half of them is evaluated
\* before the second, as in FletcherLoop)
RECURSIVE Spin(_, _)
Spin(rot, k) ==
    IF k = 0 THEN rot
    ELSE IF k = 1 THEN Turn(rot, INPUT_LEFT)
    ELSE LET first == Spin(rot, k \div 2)
         IN  IF first >= 0 THEN Spin(first, k - (k \div 2)) ELSE first

\* the turn buttons of an input: none, left, right, both
TurnInputs == { 0, INPUT_LEFT, INPUT_RIGHT, INPUT_LEFT + INPUT_RIGHT }

\* the turns the specification takes: the first MaxTurns of a game, and the
\* MaxTurns from SpinFrames on
CanTurn(turns) ==
    \/ turns < MaxTurns
    \/ turns >= SpinFrames /\ turns < SpinFrames + MaxTurns

\* the heading of a player of a new game, or that of player 1 of a game of
\* four after SpinFrames frames of turning left
InitHeading ==
    /\ pc = "probe"
    /\ players \in 1 .. MAX_PLAYERS
    /\ game = NoGame
    /\ snapshot = << >>
    /\ cmd = "none"
    /\ at_save = << >>
    /\ after_save = FALSE
    /\ hist = NoHist
    /\ \/ \E i \in Handles(players) :
             probe = [kind |-> "heading", rot |-> GameStateNew(players).rotations[i], turns |-> 0]
       \/ /\ players = MAX_PLAYERS
          /\ probe = [kind |-> "heading",
                      rot   |-> Spin(GameStateNew(players).rotations[1], SpinFrames),
                      turns |-> SpinFrames]

\* one frame of the player: the turn of GameState::advance
TurnStep(input) ==
    /\ pc = "probe"
    /\ probe.kind = "heading"
    /\ CanTurn(probe.turns)
    /\ probe' = [probe EXCEPT !.rot = Turn(probe.rot, input), !.turns = probe.turns + 1]
    /\ UNCHANGED << pc, players, game, snapshot, cmd, at_save, after_save, hist >>

NextHeading == \E input \in TurnInputs : TurnStep(input)

SpecHeading == InitHeading /\ [][NextHeading]_vars

---------------------------------------------------------------------------
(* fletcher16 on its own (game.rs:142-152): the specification of the       *)
(* checksum of a buffer that grows byte by byte.                           *)

\* the bytes the buffers are made of: the smallest and the largest
Bytes == { 0, 1, 254, 255 }

\* the empty buffer and its checksum
InitChecksum ==
    /\ pc = "probe"
    /\ players = 1
    /\ game = NoGame
    /\ snapshot = << >>
    /\ cmd = "none"
    /\ at_save = << >>
    /\ after_save = FALSE
    /\ hist = NoHist
    /\ probe = [kind |-> "bytes", data |-> << >>, sum |-> Fletcher16(<< >>)]

\* fletcher16 of the buffer with one more byte
ChecksumStep(byte) ==
    /\ pc = "probe"
    /\ probe.kind = "bytes"
    /\ Len(probe.data) < MaxLen
    /\ probe' = [probe EXCEPT !.data = Append(probe.data, byte),
                              !.sum  = Fletcher16(Append(probe.data, byte))]
    /\ UNCHANGED << pc, players, game, snapshot, cmd, at_save, after_save, hist >>

NextChecksum == \E byte \in Bytes : ChecksumStep(byte)

SpecChecksum == InitChecksum /\ [][NextChecksum]_vars

---------------------------------------------------------------------------
(* GameState::advance on its own (game.rs:74-138): the specification of    *)
(* one frame, from states a game gets to, with every input one player can  *)
(* be given.                                                               *)

\* every input of one player: the 16 button masks, connected or disconnected
AllInputs ==
    { [disconnected |-> dis, buttons |-> mask] : dis \in BOOLEAN, mask \in 0 .. 15 }

\* the input vectors of the frame: one player is given any input, each of
\* the others is idle, or each of the others is disconnected
StepInputs(n) ==
    { [i \in Handles(n) |-> IF i = j THEN in ELSE other] :
        j \in Handles(n), in \in AllInputs, other \in { Neutral, PlayerInputs[3] } }

\* player j alone holds the thrust button
OnlyThrust(n, j) == [i \in Handles(n) |-> IF i = j THEN PlayerInputs[2] ELSE Neutral]

\* the states the frame starts from, in a game of n players: after RunUp
\* frames in which nobody has moved; after RunUp frames in which one player
\* alone has thrust; after WarmFrames frames in which everybody has thrust
StepStarts(n) ==
    { Idle(GameNew(n), RunUp).game_state,
      Hold(GameNew(n), ThrustVector(n), WarmFrames).game_state }
    \cup { Hold(GameNew(n), OnlyThrust(n, j), RunUp).game_state : j \in Handles(n) }

\* a state of a game, before the frame
InitStep ==
    /\ pc = "probe"
    /\ players \in 1 .. MAX_PLAYERS
    /\ game = NoGame
    /\ snapshot = << >>
    /\ cmd = "none"
    /\ at_save = << >>
    /\ after_save = FALSE
    /\ hist = NoHist
    /\ \E gs \in StepStarts(players) : probe = [kind |-> "start", gs |-> gs]

\* the frame: GameState::advance(inputs)
AdvanceStep(inputs) ==
    /\ pc = "probe"
    /\ probe.kind = "start"
    /\ probe' = [kind |-> "step", gs |-> probe.gs, inputs |-> inputs,
                 out |-> Advance(probe.gs, inputs)]
    /\ UNCHANGED << pc, players, game, snapshot, cmd, at_save, after_save, hist >>

NextStep == \E inputs \in StepInputs(players) : AdvanceStep(inputs)

SpecStep == InitStep /\ [][NextStep]_vars

---------------------------------------------------------------------------
(* A rollback (game.rs:173-196): the engine saves, lets the game run ahead *)
(* on the inputs it has, loads the snapshot and has the same frames        *)
(* advanced again.  hist keeps the inputs of the frames since the Save,    *)
(* the inputs still to be replayed and what the game held before the Load. *)

\* the frames the engine runs ahead of a Save
MaxReplay == 2

\* a new game, or a game WarmFrames frames in (idle so far, or every player
\* at full speed), with no rollback under way
InitReplay ==
    /\ pc = "running"
    /\ players \in 1 .. MAX_PLAYERS
    /\ game \in { GameNew(players),
                  Idle(GameNew(players), WarmFrames),
                  Hold(GameNew(players), ThrustVector(players), WarmFrames) }
    /\ snapshot = << >>
    /\ cmd = "none"
    /\ at_save = << >>
    /\ after_save = FALSE
    /\ probe = NoProbe
    /\ hist = [kind |-> "replay", phase |-> "free", run |-> << >>, left |-> << >>,
               target |-> << >>]

\* a frame before the rollback
ReplayFree(inputs) ==
    /\ hist.phase = "free"
    /\ AdvanceFrame(inputs)
    /\ UNCHANGED aux

\* the Save the rollback will return to
ReplaySave ==
    /\ hist.phase = "free"
    /\ Save
    /\ hist' = [hist EXCEPT !.phase = "ahead"]
    /\ UNCHANGED probe

\* a frame run ahead of the Save
ReplayAhead(inputs) ==
    /\ hist.phase = "ahead"
    /\ Len(hist.run) < MaxReplay
    /\ AdvanceFrame(inputs)
    /\ hist' = [hist EXCEPT !.run = Append(@, inputs)]
    /\ UNCHANGED probe

\* the Load of the snapshot, after at least one frame
ReplayLoad ==
    /\ hist.phase = "ahead"
    /\ hist.run # << >>
    /\ Load
    /\ hist' = [hist EXCEPT !.phase  = "again",
                            !.left   = hist.run,
                            !.target = << [state |-> game.game_state,
                                           last  |-> game.last_checksum] >>]
    /\ UNCHANGED probe

\* the next frame again, with the inputs it had
ReplayAgain ==
    /\ hist.phase = "again"
    /\ hist.left # << >>
    /\ AdvanceFrame(Head(hist.left))
    /\ hist' = [hist EXCEPT !.left = Tail(@)]
    /\ UNCHANGED probe

NextReplay ==
    \/ \E inputs \in InputVectors(players) : ReplayFree(inputs)
    \/ ReplaySave
    \/ \E inputs \in InputVectors(players) : ReplayAhead(inputs)
    \/ ReplayLoad
    \/ ReplayAgain

SpecReplay == InitReplay /\ [][NextReplay]_vars

---------------------------------------------------------------------------
(* Properties.                                                             *)

Running == pc = "running"
Live == game.game_state
NullRecord == << NULL_FRAME, 0 >>

\* C2: a Load that directly follows a Save leaves the live simulation state
\* (frame, player count, positions, velocities, headings) as it was before
\* the Save, i.e. as it is between the two commands.
C2_RoundTrip ==
    [][(Running /\ cmd = "Save" /\ cmd' = "Load") => game'.game_state = game.game_state]_vars

\* the round trip has happened on a state that frames have changed
C2_Witness ==
    /\ Running /\ cmd = "Load" /\ after_save
    /\ Live.frame > 0
    /\ \E i \in Handles(players) : Live.velocities[i] # << 0, 0 >>

C4_SaveReadOnly ==
    /\ [][(Running /\ cmd' = "Save") =>
            /\ game' = game
            /\ snapshot' = << game.game_state >>]_vars
    /\ [][(Running /\ cmd = "Save" /\ cmd' = "Save") => snapshot' = snapshot]_vars

\* two Saves in a row, on a state that frames have changed
C4_Witness ==
    /\ Running /\ cmd = "Save" /\ after_save
    /\ Live.frame > 0
    /\ game.last_checksum # NullRecord
    /\ snapshot = << Live >>

\* C5: the game that Game::new returns is at frame 0, and every AdvanceFrame
\* command adds exactly 1 to the live frame counter.
C5_FrameStep ==
    /\ [][(pc = "session" /\ pc' = "running") => game'.game_state.frame = 0]_vars
    /\ [][(Running /\ cmd' = "AdvanceFrame") =>
            game'.game_state.frame = game.game_state.frame + 1]_vars

\* a game that has advanced MaxFrame times from frame 0
C5_Witness == Running /\ cmd = "AdvanceFrame" /\ Live.frame = MaxFrame

\* C6, as claimed: the live frame counter never decreases from one step to
\* the next, whatever the command.
C6_FrameNeverDecreases ==
    [][Running => game'.game_state.frame >= game.game_state.frame]_vars

\* C6, amended: the live frame counter never decreases across AdvanceFrame,
\* Save and Event; a Load sets it to the frame counter of the loaded snapshot.
C6_FrameMonotoneButLoad ==
    /\ [][(Running /\ cmd' # "Load") => game'.game_state.frame >= game.game_state.frame]_vars
    /\ [][(Running /\ cmd' = "Load") => game'.game_state.frame = snapshot[1].frame]_vars

\* a Load has taken the live frame counter back
C6_Witness ==
    /\ Running /\ cmd = "Load"
    /\ Live.frame < game.last_checksum[1]

\* C7: a Load leaves the last and the periodic checksum record as they were.
C7_LoadKeepsChecksums ==
    [][(Running /\ cmd' = "Load") =>
          /\ game'.last_checksum = game.last_checksum
          /\ game'.periodic_checksum = game.periodic_checksum]_vars

\* a Load of a snapshot older than the frame of both records
C7_Witness ==
    /\ Running /\ cmd = "Load"
    /\ Live.frame < game.last_checksum[1]
    /\ Live.frame < game.periodic_checksum[1]

\* C8: the game that Game::new returns has both records at (-1, 0) and only
\* AdvanceFrame changes them; after an AdvanceFrame (one that returns, here
\* and below) the last record is (live
\* frame, checksum of the serialized live state); the periodic record becomes
\* that pair when the new frame is a multiple of 100 and is otherwise kept;
\* its frame is always -1 or a positive multiple of 100.
C8_ChecksumRecords ==
    /\ [][(pc = "session" /\ pc' = "running") =>
            game'.last_checksum = NullRecord /\ game'.periodic_checksum = NullRecord]_vars
    /\ [][(Running /\ cmd' # "AdvanceFrame") =>
            /\ game'.last_checksum = game.last_checksum
            /\ game'.periodic_checksum = game.periodic_checksum]_vars
    /\ []((Running /\ cmd = "AdvanceFrame") =>
            game.last_checksum = << Live.frame, Fletcher16(Serialize(Live)) >>)
    /\ [][(Running /\ pc' = "running" /\ cmd' = "AdvanceFrame") =>
            game'.periodic_checksum =
              IF game'.game_state.frame % CHECKSUM_PERIOD = 0
                THEN game'.last_checksum ELSE game.periodic_checksum]_vars
    /\ [](Running =>
            \/ game.periodic_checksum[1] = NULL_FRAME
            \/ /\ game.periodic_checksum[1] > 0
               /\ game.periodic_checksum[1] % CHECKSUM_PERIOD = 0)

\* an AdvanceFrame past a multiple of 100: the periodic record is kept while
\* the last record moves on
C8_Witness ==
    /\ Running /\ cmd = "AdvanceFrame"
    /\ Live.frame = CHECKSUM_PERIOD + 1
    /\ game.periodic_checksum[1] = CHECKSUM_PERIOD
    /\ game.last_checksum[1] = CHECKSUM_PERIOD + 1

\* C9: an Event leaves the Game (live state and both checksum records) and
\* the engine's snapshot as they are.
C9_EventNoEffect ==
    [][(Running /\ cmd' = "Event") => game' = game /\ snapshot' = snapshot]_vars

\* an Event handled by a game that has advanced
C9_Witness ==
    /\ Running /\ cmd = "Event"
    /\ Live.frame > 0
    /\ game.last_checksum # NullRecord

C11_SequenceLengths ==
    Running =>
        /\ DOMAIN Live.positions = 0 .. (Live.num_players - 1)
        /\ DOMAIN Live.velocities = 0 .. (Live.num_players - 1)
        /\ DOMAIN Live.rotations = 0 .. (Live.num_players - 1)
        /\ Cardinality(DOMAIN Live.positions) = Live.num_players
        /\ Cardinality(DOMAIN Live.velocities) = Live.num_players
        /\ Cardinality(DOMAIN Live.rotations) = Live.num_players
        /\ game.num_players = Live.num_players

\* a game of four players that has advanced, saved, advanced and loaded
C11_Witness ==
    /\ Running /\ cmd = "Load"
    /\ Live.num_players = 4
    /\ Live.frame > 0
    /\ game.last_checksum[1] > Live.frame
    /\ Cardinality(DOMAIN Live.rotations) = 4

\* C12: every position of a running game lies in the arena, 0 <= x <= 600 and
\* 0 <= y <= 800; an AdvanceFrame stores, on each axis separately, the old
\* coordinate plus the new velocity if that lies in the arena, and the wall
\* value (0, 600 or 800) it lies beyond otherwise.
C12_Arena ==
    /\ [](Running =>
            \A i \in DOMAIN Live.positions :
                /\ 0 <= Live.positions[i][1] /\ Live.positions[i][1] <= 600000
                /\ 0 <= Live.positions[i][2] /\ Live.positions[i][2] <= 800000)
    /\ [][(Running /\ pc' = "running" /\ cmd' = "AdvanceFrame") =>
            \A i \in DOMAIN game.game_state.positions :
                LET x == game.game_state.positions[i][1] + game'.game_state.velocities[i][1]
                    y == game.game_state.positions[i][2] + game'.game_state.velocities[i][2]
                IN  /\ game'.game_state.positions[i][1] =
                          IF x < 0 THEN 0 ELSE IF x > 600000 THEN 600000 ELSE x
                    /\ game'.game_state.positions[i][2] =
                          IF y < 0 THEN 0 ELSE IF y > 800000 THEN 800000 ELSE y]_vars

\* the AdvanceFrame after a Save has left a player at the left wall, which
\* its velocity would have taken it beyond, while it has moved along the wall
C12_Witness ==
    /\ Running /\ cmd = "AdvanceFrame" /\ after_save
    /\ \E i \in DOMAIN Live.positions :
          /\ at_save[1].positions[i][1] + Live.velocities[i][1] < 0
          /\ Live.positions[i][1] = 0
          /\ Live.positions[i][2] # at_save[1].positions[i][2]

\* the square of the length of a velocity
NormSq(vel) == vel[1] * vel[1] + vel[2] * vel[2]

C14_HeadingBelowTwoPi ==
    probe.kind = "heading" => (0 <= probe.rot /\ probe.rot < TWO_PI)

\* the two sums of Fletcher-16 after the bytes of b, in unbounded integers:
\* s1 = (s1 + byte) mod 255, s2 = (s2 + s1) mod 255, both from 0
RECURSIVE C15_Sums(_)
C15_Sums(b) ==
    IF b = << >> THEN << 0, 0 >>
    ELSE LET before == C15_Sums(SubSeq(b, 1, Len(b) - 1))
             s1     == (before[1] + b[Len(b)]) % 255
             s2     == (before[2] + s1) % 255
         IN  << s1, s2 >>

\* C15: the checksum of every buffer b is (s2 << 8) | s1 for the two sums of
\* Fletcher-16, s1 being below 2^8 so that the OR is a sum; the checksum of
\* the empty buffer is 0 and that of the buffer [1] is 257; at no byte does
\* s1 + byte, s2 + s1 or s2 << 8 reach 2^16.
C15_Fletcher16 ==
    probe.kind = "bytes" =>
        LET b == probe.data
            s == C15_Sums(b)
        IN  /\ s[1] < 256
            /\ probe.sum = s[2] * 256 + s[1]
            /\ b = << >> => probe.sum = 0
            /\ b = << 1 >> => probe.sum = 257
            /\ s[2] * 256 < 65536
            /\ \A k \in 1 .. Len(b) :
                  LET before == C15_Sums(SubSeq(b, 1, k - 1))
                  IN  /\ before[1] + b[k] < 65536
                      /\ before[2] + ((before[1] + b[k]) % 255) < 65536

\* the checksum of a buffer of MaxLen bytes that starts with the largest byte
\* and has both sums above 0
C15_Witness ==
    /\ probe.kind = "bytes"
    /\ Len(probe.data) = MaxLen
    /\ probe.data[1] = 255
    /\ probe.sum % 256 > 0
    /\ probe.sum \div 256 > 0

\* the velocity vel after friction: each component times 0.98
Damped(vel) == << RoundDiv(vel[1] * 980, 1000), RoundDiv(vel[2] * 980, 1000) >>

\* the heading rot turned left by the rotation constant, wrapped
TurnedLeft(rot) ==
    LET d == SubF(rot, 11184811) IN IF d < 0 THEN AddF(d, TWO_PI) ELSE d

\* the heading rot turned right by the rotation constant, wrapped
TurnedRight(rot) ==
    LET d == AddF(rot, 11184811) IN IF d >= TWO_PI THEN d - TWO_PI ELSE d

\* C16: a player reported disconnected in a frame is advanced as if its input
\* were the left-only mask 4, whatever buttons are recorded for it: its
\* heading is the old one turned left by the rotation constant (wrapped), its
\* velocity the old one after friction, with no thrust added or subtracted,
\* and its whole result that of the same frame with the player connected and
\* holding left alone.
C16_DisconnectSpinsLeft ==
    probe.kind = "step" =>
        \A i \in DOMAIN probe.inputs :
            probe.inputs[i].disconnected =>
                LET asLeft == Advance(probe.gs,
                                [probe.inputs EXCEPT ![i] = [disconnected |-> FALSE, buttons |-> 4]])
                IN  /\ probe.out.rotations[i] = TurnedLeft(probe.gs.rotations[i])
                    /\ probe.out.velocities[i] = Damped(probe.gs.velocities[i])
                    /\ probe.out.positions[i] = asLeft.positions[i]
                    /\ probe.out.velocities[i] = asLeft.velocities[i]
                    /\ probe.out.rotations[i] = asLeft.rotations[i]

\* a moving player, disconnected with thrust and right recorded as its
\* buttons, has turned left and has only slowed down
C16_Witness ==
    /\ probe.kind = "step"
    /\ \E i \in DOMAIN probe.inputs :
          /\ probe.inputs[i].disconnected
          /\ probe.inputs[i].buttons = 9
          /\ probe.gs.velocities[i] # << 0, 0 >>
          /\ probe.out.velocities[i] # probe.gs.velocities[i]
          /\ probe.out.rotations[i] # probe.gs.rotations[i]

\* the thrust of one frame along the heading rot: 0.25 times (cos, sin)
Push(rot) == << RoundDiv(250 * Cos(rot), 1000), RoundDiv(250 * Sin(rot), 1000) >>

\* C17: for a connected player and each of the 16 masks (up 1, down 2, left
\* 4, right 8): the velocity that goes into the speed limit is the old one
\* after friction when up and down are both set or both clear, that plus the
\* thrust for up without down, that minus the thrust for down without up;
\* the heading is unchanged when left and right are both set or both clear,
\* turned left for left without right, turned right for right without left.
C17_OpposingInputs ==
    probe.kind = "step" =>
        \A i \in DOMAIN probe.inputs :
            ~probe.inputs[i].disconnected =>
                LET mask   == probe.inputs[i].buttons
                    up     == mask % 2 = 1
                    down   == (mask \div 2) % 2 = 1
                    left   == (mask \div 4) % 2 = 1
                    right  == (mask \div 8) % 2 = 1
                    rot    == probe.gs.rotations[i]
                    slow   == Damped(probe.gs.velocities[i])
                    push   == Push(rot)
                    before == IF up = down THEN slow
                              ELSE IF up THEN << slow[1] + push[1], slow[2] + push[2] >>
                              ELSE << slow[1] - push[1], slow[2] - push[2] >>
                IN  /\ probe.out.velocities[i] = LimitSpeed(before)
                    /\ up = down => probe.out.velocities[i] = slow
                    /\ probe.out.rotations[i] =
                          IF left = right THEN rot
                          ELSE IF left THEN TurnedLeft(rot) ELSE TurnedRight(rot)

\* a moving player with all four buttons set has only slowed down, and
\* another frame of the same state, with up alone, has changed its velocity
\* otherwise
C17_Witness ==
    /\ probe.kind = "step"
    /\ \E i \in DOMAIN probe.inputs :
          /\ ~probe.inputs[i].disconnected
          /\ probe.inputs[i].buttons = 15
          /\ probe.gs.velocities[i] # << 0, 0 >>
          /\ probe.out.velocities[i] = Damped(probe.gs.velocities[i])
          /\ probe.out.rotations[i] = probe.gs.rotations[i]
          /\ Advance(probe.gs, [probe.inputs EXCEPT ![i].buttons = 1]).velocities[i]
                # probe.out.velocities[i]

\* what one frame has made of player i
Player(gs, i) == << gs.positions[i], gs.velocities[i], gs.rotations[i] >>

\* the state gs with every player but i put at the origin, at rest, heading 0
Alone(gs, i) ==
    [gs EXCEPT !.positions  = [j \in DOMAIN gs.positions  |-> IF j = i THEN @[j] ELSE << 0, 0 >>],
               !.velocities = [j \in DOMAIN gs.velocities |-> IF j = i THEN @[j] ELSE << 0, 0 >>],
               !.rotations  = [j \in DOMAIN gs.rotations  |-> IF j = i THEN @[j] ELSE 0]]

\* the frame with the loop body run for the players in the given order
RECURSIVE InOrder(_, _, _)
InOrder(gs, inputs, order) ==
    IF order = << >> THEN gs
    ELSE InOrder(StorePlayer(gs, Head(order), StepPlayer(gs, inputs, Head(order))),
                 inputs, Tail(order))

\* the orders the n players can be processed in
Orders(n) ==
    { order \in [1 .. n -> Handles(n)] : \A a, b \in 1 .. n : a # b => order[a] # order[b] }

\* C18: in one frame, what becomes of player i (position, velocity, heading)
\* is the same when every other player is given another input (any mask,
\* connected or not), when every other player is in another state, and when
\* the input of player i is replaced by its effective input; and the frame
\* ends in the same state in whatever order the players are processed.
C18_PlayerIndependence ==
    probe.kind = "step" =>
        LET gs     == probe.gs
            inputs == probe.inputs
            n      == gs.num_players
            first  == [gs EXCEPT !.frame = @ + 1]
        IN  /\ \A i \in Handles(n) :
                  LET mine == [disconnected |-> FALSE,
                               buttons |-> IF inputs[i].disconnected THEN 4
                                           ELSE inputs[i].buttons]
                  IN  /\ Player(Advance(Alone(gs, i), inputs), i) = Player(probe.out, i)
                      /\ Player(Advance(gs, [inputs EXCEPT ![i] = mine]), i) = Player(probe.out, i)
                      /\ \A other \in AllInputs :
                            Player(Advance(gs, [j \in Handles(n) |->
                                                  IF j = i THEN inputs[i] ELSE other]), i)
                              = Player(probe.out, i)
            /\ \A order \in Orders(n) : InOrder(first, inputs, order) = probe.out

\* a frame of a game of several players in which two players have both
\* moved and turned, in opposite senses
C18_Witness ==
    /\ probe.kind = "step"
    /\ \E i, j \in DOMAIN probe.inputs :
          /\ i # j
          /\ probe.out.positions[i] # probe.gs.positions[i]
          /\ probe.out.positions[j] # probe.gs.positions[j]
          /\ probe.out.rotations[i] = TurnedLeft(probe.gs.rotations[i])
          /\ probe.out.rotations[j] = TurnedRight(probe.gs.rotations[j])

\* C19: an AdvanceFrame whose inputs do not know some handle below the
\* player count ends the program: no command is handled after it (no step
\* leaves an aborted program), the frame it was about to record is not
\* recorded, and no such AdvanceFrame leaves the program running.
C19_UnknownHandleFatal ==
    [][ /\ pc # "aborted"
        /\ \A inputs \in ShortVectors(players) :
              ( /\ \E i \in Handles(players) : i \notin DOMAIN inputs
                /\ AdvanceFrame(inputs) )
              => /\ pc' = "aborted"
                 /\ game'.last_checksum = game.last_checksum
                 /\ game'.periodic_checksum = game.periodic_checksum ]_vars

\* a game of several players has panicked in an AdvanceFrame, after the
\* frame counter was incremented and the first player had moved
C19_Witness ==
    /\ pc = "aborted"
    /\ cmd = "AdvanceFrame"
    /\ players > 1
    /\ game.game_state.frame > game.last_checksum[1]
    /\ at_save # << >>
    /\ after_save
    /\ game.game_state.positions[0] # at_save[1].positions[0]
    /\ game.game_state.positions[1] = at_save[1].positions[1]

\* C20: after a Save, k >= 1 AdvanceFrames, a Load of that snapshot and the
\* same k AdvanceFrames with the same inputs, the live state and the last
\* checksum record are those the game held just before the Load; so is the
\* periodic record.
C20_RollbackReplay ==
    (hist.kind = "replay" /\ hist.phase = "again" /\ hist.left = << >>) =>
        /\ Live = hist.target[1].state
        /\ game.last_checksum = hist.target[1].last
        /\ Live.frame = snapshot[1].frame + Len(hist.run)

\* two frames were replayed, in which players moved and turned, and the
\* first of them is a multiple of 100
C20_Witness ==
    /\ hist.kind = "replay" /\ hist.phase = "again" /\ hist.left = << >>
    /\ Len(hist.run) = 2
    /\ hist.run[1] # hist.run[2]
    /\ Live.frame = snapshot[1].frame + 2
    /\ Live.frame = game.periodic_checksum[1] + 1
    /\ Live.positions # snapshot[1].positions
    /\ Live.rotations # snapshot[1].rotations

=============================================================================
